---- MODULE Spec2Model ----
(***************************************************************************)
(* A model of py_lab's asynchronous job / result lifecycle:                *)
(*   - the /analyze submission, the background job run_analyze_job and the *)
(*     status store (api.py),                                              *)
(*   - the retention sweep cleanup_expired_requests (api.py),              *)
(*   - signed download URLs (api.py, signing.py),                          *)
(*   - streaming ingestion save_upload_file_streaming (storage.py).        *)
(* Time is counted in ticks of 1/TicksPerSecond second, so that            *)
(* int(time.time()) is a real truncation.                                  *)
(***************************************************************************)
EXTENDS Integers, Sequences, FiniteSets, TLC

\* ------------------------------------------------------------------ bounds
MaxReq == 2            \* request ids the model hands out
MaxClock == 3          \* last tick of the clock
TicksPerSecond == 2    \* clock resolution
MaxSignClock == 5      \* last tick of the clock in SpecSign
Epoch == 9             \* int(time.time()) at tick 0
MaxIssued == 1         \* URLs issued in one behaviour of SpecSign
MaxChunks == 2         \* chunks an upload delivers before EOF
MaxMaxBytes == 3       \* largest max_bytes argument tried
MaxTtl == 1            \* largest ttl_seconds argument tried
MaxNameLen == 3        \* longest filename given to validate_file_type_strict
MaxRows == 6           \* most rows of a table given to detect_anomalies
MaxLabel == 6          \* largest row label (df.index value) of such a table
MaxScore == 2          \* anomaly scores are drawn from 1..MaxScore
MaxCleanRows == 4      \* most rows of a table given to basic_clean
MaxCols == 2           \* most columns of such a table
MaxThreads == 2        \* threads calling load_iforest / reload_iforest at once

\* ------------------------------------------------------- program constants
MAX_BYTES == 2             \* settings.max_bytes, scaled down
MIN_ROWS == 5              \* detect_anomalies: X.shape[0] < 5
RESULT_TTL_SECONDS == 1    \* settings.result_ttl_seconds, scaled down
DOWNLOAD_URL_TTL_SECONDS == 1  \* settings.download_url_ttl_seconds, scaled down
CHUNK_SIZE == 2            \* the 1024 * 1024 of upload_file.read, scaled down

\* Request ids; an id not handed out yet is an id the server does not know.
Ids == 1..MaxReq

\* The files a request directory out/requests/<id>/ can hold.
Files == {"input.csv", "summary.json", "hist.png"}

\* An entry of BASE_OUT_DIR: a directory with its files, or (is_dir = FALSE) a
\* plain file somebody put there.
NoDir == [exists |-> FALSE, is_dir |-> TRUE, mtime |-> 0, files |-> {}]
NoResp == [op |-> "none", id |-> 0, code |-> 0, detail |-> "", n |-> 0]

VARIABLES
    clock,        \* time.time(), in ticks
    admin_token,  \* settings.admin_token ("" = not configured)
    nextId,       \* the next fresh secrets.token_urlsafe(24)
    workDir,      \* BASE_OUT_DIR / id    (out/requests/<id>/)
    statusRec,    \* RESULTS_DIR / id / "status.json" ("none" = no file)
    pc,           \* where the background task of each request stands
    histOpt,      \* the hist argument the task was scheduled with
    resp          \* the last HTTP response sent

\* Signed download URLs (make_download_url, _required_valid_signature).
VARIABLES
    download_signing_key,  \* settings.download_signing_key ("" = signing off)
    issued,                \* the URLs make_download_url has returned
    chk,                   \* the last signed-URL check: its inputs and outcome
    artifacts              \* the <<request id, filename>> files under BASE_OUT_DIR

\* Streaming ingestion (save_upload_file_streaming), one call.
VARIABLES
    chunks,     \* what upload_file.read(1 MiB) returns, call after call, before EOF
    max_bytes,  \* the max_bytes argument
    pos,        \* the next chunk to read
    written,    \* the local variable written
    outfile,    \* the destination file: whether it exists and the bytes given to it
    ipc,        \* where the call stands
    cause,      \* the exception on its way out, if any
    rm_failed   \* whether os.remove raised (and was swallowed)

\* The retention sweep as a function (cleanup_expired_requests), call after call.
VARIABLES
    sweepTtl,   \* the ttl_seconds argument
    sweepRun    \* sweeps run back to back at the same clock (capped at 2)

\* One run of the loop of cleanup_expired_requests, iteration by iteration.
VARIABLES
    lpc,        \* "idle", "is_dir", "stat", "compare", "returned"
    llisted,    \* the names base_dir.iterdir() listed
    llist,      \* the names the loop has not visited yet, in iteration order
    lnow,       \* now = time.time(), taken once
    lmtime,     \* mtime of the current subdir, as stat returned it
    lremoved,   \* removed
    ltried,     \* the subdirs rmtree was called on, in call order
    lraised,    \* whether the call ended by an exception
    lcaught     \* the subdirs whose stat raised FileNotFoundError (caught)

\* The model cache (model_store) and the admin endpoints that use it.
VARIABLES
    cache,       \* model_store._cache ("None" or the bundle held)
    model_file,  \* what settings.model_path holds on disk
    mres,        \* the last load_iforest / reload_iforest call and how it ended
    adminReq     \* the last admin request: endpoint and X-Admin-Token header

\* The library functions checked on their own: one call, its arguments and
\* what it returned or raised.
VARIABLES
    fnIn,   \* the arguments of the call
    fnOut   \* the result of the call ("pending" before it)

\* status.json at the level of file operations: the job's thread writes it
\* while a request thread reads it.
VARIABLES
    sfile,  \* per request, what status.json holds ("" = opened and truncated)
    wpc,    \* per request, where write_status stands
    wnew,   \* per request, the status of the record last handed to write_status
    rpc,    \* where read_status stands, and for which request
    rres,   \* what the last read_status gave
    apc     \* per request, where analyze_upload stands: "new", "written" (the
            \* queued record is on disk), "scheduled" (add_task), "returned"
            \* (the response with the request id has been sent)

\* The model cache under concurrent callers, statement by statement.
VARIABLES
    slot,      \* model_store._cache as the threads see it
    tpc,       \* per thread, the statement it is about to run
    top,       \* per thread, the function it called
    tloc,      \* per thread, its local variable bundle
    tres,      \* per thread, what its call returned
    lastStore  \* the value of the latest assignment to _cache

appVars == <<admin_token, nextId, workDir, statusRec, pc, histOpt, resp>>
signVars == <<download_signing_key, issued, chk, artifacts>>
ingestVars == <<chunks, max_bytes, pos, written, outfile, ipc, cause, rm_failed>>
loopVars == <<lpc, llisted, llist, lnow, lmtime, lremoved, ltried, lraised, lcaught>>
sweepVars == <<sweepTtl, sweepRun, loopVars>>
modelVars == <<cache, model_file, mres, adminReq>>
fnVars == <<fnIn, fnOut>>
ioVars == <<sfile, wpc, wnew, rpc, rres, apc>>
cacheVars == <<slot, tpc, top, tloc, tres, lastStore>>
vars == <<clock, appVars, signVars, ingestVars, sweepVars, modelVars, fnVars, ioVars, cacheVars>>

notApp == <<signVars, ingestVars, sweepVars, modelVars, fnVars, ioVars, cacheVars>>
notSign == <<appVars, ingestVars, sweepVars, modelVars, fnVars, ioVars, cacheVars>>
notFn == <<clock, appVars, signVars, ingestVars, sweepVars, modelVars, ioVars, cacheVars>>
notIo == <<clock, appVars, signVars, ingestVars, sweepVars, modelVars, fnVars, cacheVars>>
notCache == <<clock, appVars, signVars, ingestVars, sweepVars, fnVars, ioVars>>

\* ------------------------------------------------------------- status store

\* write_status: status.json is overwritten with the new payload, whatever it
\* held before (parent directory created on demand).
write_status(st, request_id, status) == [st EXCEPT ![request_id] = status]

\* read_status: the record, or the outcome of `raise None` when there is none.
\* `raise None` raises TypeError("exceptions must derive from BaseException").
read_status(st, request_id) ==
    IF request_id \notin DOMAIN st \/ st[request_id] = "none"
    THEN [raised |-> "TypeError", value |-> "none"]
    ELSE [raised |-> "", value |-> st[request_id]]

\* get_status: the endpoint. An exception of read_status is not caught, so the
\* framework answers 500; the 404 branch needs read_status to return None.
get_status(st, request_id) ==
    LET r == read_status(st, request_id) IN
    IF r.raised # ""
    THEN [op |-> "get_status", id |-> request_id, code |-> 500, detail |-> r.raised, n |-> 0]
    ELSE IF r.value = "none"
    THEN [op |-> "get_status", id |-> request_id, code |-> 404, detail |-> "Status not found", n |-> 0]
    ELSE [op |-> "get_status", id |-> request_id, code |-> 200, detail |-> "", n |-> 0]

GetStatus(request_id) ==
    /\ resp' = get_status(statusRec, request_id)
    /\ UNCHANGED <<clock, admin_token, nextId, workDir, statusRec, pc, histOpt>>
    /\ UNCHANGED notApp

\* ---------------------------------------------------------------- directories

\* Path.mkdir(parents=True, exist_ok=True)
mkdir(d, now) ==
    IF d.exists THEN d ELSE [exists |-> TRUE, is_dir |-> TRUE, mtime |-> now, files |-> {}]

\* Creating a file in a directory stamps the directory's mtime; rewriting an
\* existing file does not.
write_file(d, name, now) ==
    IF name \in d.files THEN d
    ELSE [exists |-> TRUE, is_dir |-> TRUE, mtime |-> now, files |-> d.files \cup {name}]

\* ------------------------------------------------------------------- submit

\* analyze_upload. csv: the filename ends in ".csv"; size: bytes of the upload.
analyze_upload(csv, size, hist) ==
    IF ~csv
    THEN /\ resp' = [op |-> "analyze", id |-> 0, code |-> 404,
                     detail |-> "Only CSV files are supported", n |-> 0]
         /\ UNCHANGED <<nextId, workDir, statusRec, pc, histOpt>>
    ELSE LET req_id == nextId
             made == mkdir(workDir[req_id], clock)
             \* content = await file.read(MAX_BYTES + 1)
             content == IF size > MAX_BYTES + 1 THEN MAX_BYTES + 1 ELSE size
         IN
         /\ nextId' = nextId + 1
         /\ IF content > MAX_BYTES
            THEN /\ workDir' = [workDir EXCEPT ![req_id] = made]
                 /\ resp' = [op |-> "analyze", id |-> req_id, code |-> 413,
                             detail |-> "File too large(max 10MB)", n |-> 0]
                 /\ UNCHANGED <<statusRec, pc, histOpt>>
            ELSE /\ workDir' = [workDir EXCEPT ![req_id] = write_file(made, "input.csv", clock)]
                 /\ statusRec' = write_status(statusRec, req_id, "queued")
                 \* background_tasks.add_task(run_analyze_job, req_id, hist, top_k)
                 /\ pc' = [pc EXCEPT ![req_id] = "scheduled"]
                 /\ histOpt' = [histOpt EXCEPT ![req_id] = hist]
                 /\ resp' = [op |-> "analyze", id |-> req_id, code |-> 202,
                             detail |-> "", n |-> 0]

Submit ==
    /\ nextId \in Ids
    /\ \E csv \in BOOLEAN, size \in 0..(MAX_BYTES + 2), hist \in BOOLEAN :
          analyze_upload(csv, size, hist)
    /\ UNCHANGED <<clock, admin_token>>
    /\ UNCHANGED notApp

\* ------------------------------------------------------------ background job
\* run_analyze_job, one action per step that can raise. `ok` is whether the
\* step's I/O succeeds. pc: "scheduled" -> "work" -> "done" -> "returned";
\* "except" is the handler of the try block; "crashed" means the exception
\* left run_analyze_job (it reached the scheduler).

\* A variant with the write inside the try block: its failure goes to the
\* except handler, which writes "failed" over "queued".
JobMarkRunning_InTry(r, ok) ==
    /\ pc[r] = "scheduled"
    /\ IF ok
       THEN /\ statusRec' = write_status(statusRec, r, "running")
            /\ pc' = [pc EXCEPT ![r] = "work"]
       ELSE /\ pc' = [pc EXCEPT ![r] = "except"]
            /\ UNCHANGED statusRec
    /\ UNCHANGED <<workDir>>

\* write_status(req_id, {"status": "running"}): before the try block.
JobMarkRunning(r, ok) ==
    /\ pc[r] = "scheduled"
    /\ IF ok
       THEN /\ statusRec' = write_status(statusRec, r, "running")
            /\ pc' = [pc EXCEPT ![r] = "work"]
       ELSE /\ pc' = [pc EXCEPT ![r] = "crashed"]
            /\ UNCHANGED statusRec
    /\ UNCHANGED <<workDir>>

\* The try block up to mark("hist"), as one step (the job is one uninterruptible
\* unit of work). fail_at names the call that raises, if any:
\*   work_dir.mkdir(...); df = basic_clean(load_csv(csv_path))      "load"
\*   (work_dir / "summary.json").write_text(...)                    "summary"
\*   if hist: save_numeric_hist(df, hist, png_path)                 "hist"
FailPoints == {"load", "summary", "hist", "none"}

\* A variant in which every job works in the directory of the first request.
JobWork_FirstDir(r, fail_at) ==
    /\ pc[r] = "work"
    /\ LET made == mkdir(workDir[1], clock)
           summarized == write_file(made, "summary.json", clock)
       IN
       IF fail_at = "load" \/ "input.csv" \notin made.files \/ fail_at = "summary"
       THEN /\ workDir' = [workDir EXCEPT ![1] = made]
            /\ pc' = [pc EXCEPT ![r] = "except"]
       ELSE /\ workDir' = [workDir EXCEPT ![1] = summarized]
            /\ pc' = [pc EXCEPT ![r] = "done"]
    /\ UNCHANGED <<statusRec>>

JobWork(r, fail_at) ==
    /\ pc[r] = "work"
    /\ LET made == mkdir(workDir[r], clock)
           summarized == write_file(made, "summary.json", clock)
           plotted == write_file(summarized, "hist.png", clock)
       IN
       IF fail_at = "load" \/ "input.csv" \notin made.files \/ fail_at = "summary"
       THEN /\ workDir' = [workDir EXCEPT ![r] = made]
            /\ pc' = [pc EXCEPT ![r] = "except"]
       ELSE IF ~histOpt[r]
       THEN /\ workDir' = [workDir EXCEPT ![r] = summarized]
            /\ pc' = [pc EXCEPT ![r] = "done"]
       ELSE IF fail_at = "hist"
       THEN /\ workDir' = [workDir EXCEPT ![r] = summarized]
            /\ pc' = [pc EXCEPT ![r] = "except"]
       ELSE /\ workDir' = [workDir EXCEPT ![r] = plotted]
            /\ pc' = [pc EXCEPT ![r] = "done"]
    /\ UNCHANGED <<statusRec>>

\* make_download_url(...) twice, then write_status(req_id, {"status": "done", ...})
\* and log_json (logging swallows its own errors).
JobMarkDone(r, ok) ==
    /\ pc[r] = "done"
    /\ IF ok
       THEN /\ statusRec' = write_status(statusRec, r, "done")
            /\ pc' = [pc EXCEPT ![r] = "returned"]
       ELSE /\ pc' = [pc EXCEPT ![r] = "except"]
            /\ UNCHANGED statusRec
    /\ UNCHANGED <<workDir>>

\* except Exception as e: write_status(req_id, {"status": "failed", ...})
JobMarkFailed(r, ok) ==
    /\ pc[r] = "except"
    /\ IF ok
       THEN /\ statusRec' = write_status(statusRec, r, "failed")
            /\ pc' = [pc EXCEPT ![r] = "returned"]
       ELSE /\ pc' = [pc EXCEPT ![r] = "crashed"]
            /\ UNCHANGED statusRec
    /\ UNCHANGED <<workDir>>

run_analyze_job(r) ==
    /\ \/ \E ok \in BOOLEAN : JobMarkRunning(r, ok)
       \/ \E fail_at \in FailPoints : JobWork(r, fail_at)
       \/ \E ok \in BOOLEAN : JobMarkDone(r, ok)
       \/ \E ok \in BOOLEAN : JobMarkFailed(r, ok)
    /\ UNCHANGED <<clock, admin_token, nextId, histOpt, resp>>
    /\ UNCHANGED notApp

\* ---------------------------------------------------------- retention sweep

\* What shutil.rmtree(subdir, ignore_errors=True) can leave behind.
RmtreeOutcomes == {"removed", "emptied", "untouched"}

rmtree(d, outcome, now) ==
    CASE outcome = "removed" -> NoDir
      [] outcome = "emptied" -> IF d.files = {} THEN d
                                ELSE [exists |-> TRUE, is_dir |-> TRUE, mtime |-> now, files |-> {}]
      [] OTHER -> d

\* A variant that also takes a subdirectory whose age equals the ttl.
expired_AtBoundary(d, now, ttl_seconds) ==
    d.exists /\ d.is_dir /\ now - d.mtime >= ttl_seconds * TicksPerSecond

\* if not subdir.is_dir(): continue ... if now - mtime > ttl_seconds
\* (now and mtime in ticks)
expired(d, now, ttl_seconds) ==
    d.exists /\ d.is_dir /\ now - d.mtime > ttl_seconds * TicksPerSecond

\* The subdirectories the loop of cleanup_expired_requests finds old enough.
expired_subdirs(dirs, base_exists, now, ttl_seconds) ==
    IF ~base_exists THEN {}
    ELSE {r \in DOMAIN dirs : expired(dirs[r], now, ttl_seconds)}

\* cleanup_expired_requests(base_dir, ttl_seconds). dirs: the subdirectories of
\* base_dir; outcome: what rmtree manages for each expired one. removed counts
\* every rmtree call, whatever it managed.
cleanup_expired_requests(dirs, base_exists, now, ttl_seconds, outcome) ==
    LET old == expired_subdirs(dirs, base_exists, now, ttl_seconds) IN
    [dirs |-> [r \in DOMAIN dirs |->
                  IF r \in old THEN rmtree(dirs[r], outcome[r], now) ELSE dirs[r]],
     removed |-> Cardinality(old)]

\* BASE_OUT_DIR is made (parents=True) by the first submission that gets an id.
base_out_dir_exists == nextId > 1

NoHeader == "<no header>"
HeaderValues == {NoHeader, "", "secret", "wrong"}

\* A variant that refuses only a missing header.
unauthorized_MissingOnly(x_admin_token) ==
    /\ admin_token # ""
    /\ x_admin_token \in {NoHeader, ""}

\* if settings.admin_token: if not x_admin_token or x_admin_token != settings.admin_token
unauthorized(x_admin_token) ==
    /\ admin_token # ""
    /\ (x_admin_token \in {NoHeader, ""} \/ x_admin_token # admin_token)

\* admin_cleanup: POST /admin/cleanup
admin_cleanup(x_admin_token, outcome) ==
    IF unauthorized(x_admin_token)
    THEN /\ resp' = [op |-> "cleanup", id |-> 0, code |-> 401, detail |-> "Unauthorized", n |-> 0]
         /\ UNCHANGED workDir
    ELSE LET res == cleanup_expired_requests(workDir, base_out_dir_exists, clock,
                                             RESULT_TTL_SECONDS, outcome) IN
         /\ workDir' = res.dirs
         /\ resp' = [op |-> "cleanup", id |-> 0, code |-> 200, detail |-> "",
                     n |-> res.removed]

AdminCleanup ==
    /\ \E x_admin_token \in HeaderValues :
          \E outcome \in [expired_subdirs(workDir, base_out_dir_exists, clock,
                                          RESULT_TTL_SECONDS) -> RmtreeOutcomes] :
             admin_cleanup(x_admin_token, outcome)
    /\ UNCHANGED <<clock, admin_token, nextId, statusRec, pc, histOpt>>
    /\ UNCHANGED notApp

\* ---------------------------------------------------------------------- time
Tick ==
    /\ clock < MaxClock
    /\ clock' = clock + 1
    /\ UNCHANGED <<admin_token, nextId, workDir, statusRec, pc, histOpt, resp>>
    /\ UNCHANGED notApp


\* ------------------------------------------------------------- signed URLs
\* Text is a sequence of one-character strings, so that the f-strings of the
\* source are real concatenations and str(int) / int(str) real conversions.

Digit == <<"0", "1", "2", "3", "4", "5", "6", "7", "8", "9">>

RECURSIVE nat_to_str(_)
nat_to_str(n) == IF n < 10 THEN <<Digit[n + 1]>>
                 ELSE nat_to_str(n \div 10) \o <<Digit[(n % 10) + 1]>>

\* str(exp) as the f-string formats it
int_to_str(n) == IF n < 0 THEN <<"-">> \o nat_to_str(-n) ELSE nat_to_str(n)

digit_value(c) == (CHOOSE i \in 1..10 : Digit[i] = c) - 1

RECURSIVE str_to_nat(_)
str_to_nat(t) == IF Len(t) = 0 THEN 0
                 ELSE 10 * str_to_nat(SubSeq(t, 1, Len(t) - 1)) + digit_value(t[Len(t)])

\* int(text): how the framework reads the exp query parameter
str_to_int(t) == IF t[1] = "-" THEN -str_to_nat(Tail(t)) ELSE str_to_nat(t)

HIST_PNG == <<"h", "i", "s", "t", ".", "p", "n", "g">>
SUMMARY_JSON == <<"s", "u", "m", "m", "a", "r", "y", ".", "j", "s", "o", "n">>

\* if filename not in ('hist.png', 'summary.json')
AllowedFilenames == {HIST_PNG, SUMMARY_JSON}

\* int(time.time())
now_seconds == Epoch + (clock \div TicksPerSecond)

\* sign(key, message): HMAC-SHA256 as an ideal MAC, a digest that names its key
\* and message (equal digests exactly for equal key and message); hexdigest()
\* is ASCII text.
sign(key, message) == [kind |-> "hexdigest", key |-> key, message |-> message]

\* What else a caller can put in the sig query parameter.
JunkSig == [kind |-> "ascii", key |-> "", message |-> <<>>]
NonAsciiSig == [kind |-> "non-ascii", key |-> "", message |-> <<>>]

is_ascii(text) == text.kind # "non-ascii"

\* constant_time_eq(a, b) = hmac.compare_digest(a, b), which raises TypeError
\* for a str that is not ASCII.
constant_time_eq(a, b) ==
    IF ~is_ascii(a) \/ ~is_ascii(b) THEN "TypeError"
    ELSE IF a = b THEN "True" ELSE "False"

\* message = f"{request_id}:{filename}:{exp}"   in _required_valid_signature
check_message(request_id, filename, exp) ==
    request_id \o <<":">> \o filename \o <<":">> \o int_to_str(exp)

\* A variant that puts the fields in another order than the verifier does.
issue_message_FilenameFirst(req_id, filename, exp) ==
    filename \o <<":">> \o req_id \o <<":">> \o int_to_str(exp)

\* message = f"{req_id}:{filename}:{exp}"       in make_download_url
issue_message(req_id, filename, exp) ==
    req_id \o <<":">> \o filename \o <<":">> \o int_to_str(exp)

\* A variant that compares the signature before it looks at the expiry.
required_valid_signature_SigFirst(key, request_id, filename, exp, signature, now) ==
    IF key = "" THEN [code |-> 200, detail |-> "ok"]
    ELSE LET expected == sign(key, check_message(request_id, filename, exp))
             same == constant_time_eq(expected, signature)
         IN  IF same = "TypeError" THEN [code |-> 500, detail |-> "TypeError"]
             ELSE IF same = "False" THEN [code |-> 403, detail |-> "Invalid signature"]
             ELSE IF exp < now THEN [code |-> 403, detail |-> "URL has expired"]
             ELSE [code |-> 200, detail |-> "ok"]

\* A variant without the early return for an unset signing key.
required_valid_signature_NoDevMode(key, request_id, filename, exp, signature, now) ==
    IF exp < now THEN [code |-> 403, detail |-> "URL has expired"]
    ELSE LET expected == sign(key, check_message(request_id, filename, exp))
             same == constant_time_eq(expected, signature)
         IN  IF same = "TypeError" THEN [code |-> 500, detail |-> "TypeError"]
             ELSE IF same = "False" THEN [code |-> 403, detail |-> "Invalid signature"]
             ELSE [code |-> 200, detail |-> "ok"]

\* _required_valid_signature: "ok" is the plain return.
required_valid_signature(key, request_id, filename, exp, signature, now) ==
    IF key = "" THEN [code |-> 200, detail |-> "ok"]
    ELSE IF exp < now THEN [code |-> 403, detail |-> "URL has expired"]
    ELSE LET expected == sign(key, check_message(request_id, filename, exp))
             same == constant_time_eq(expected, signature)
         IN  IF same = "TypeError" THEN [code |-> 500, detail |-> "TypeError"]
             ELSE IF same = "False" THEN [code |-> 403, detail |-> "Invalid signature"]
             ELSE [code |-> 200, detail |-> "ok"]

\* make_download_url: the URL as its parts (absolute_url only puts base_url in
\* front). query: the names of the query parameters; exp travels as text in
\* the query string. Without parameters exp and sig are fillers.
make_download_url(key, req_id, filename, now) ==
    LET exp == now + DOWNLOAD_URL_TTL_SECONDS IN
    IF key = ""
    THEN [route |-> "/results", rid |-> req_id, filename |-> filename,
          query |-> {}, exp |-> <<>>, sig |-> JunkSig]
    ELSE [route |-> "/download", rid |-> req_id, filename |-> filename,
          query |-> {"exp", "sig"}, exp |-> int_to_str(exp),
          sig |-> sign(key, issue_message(req_id, filename, exp))]

NoCheck == [op |-> "none", rid |-> <<>>, filename |-> <<>>, exp |-> 0, sig |-> JunkSig,
            now |-> 0, issued_at |-> 0, code |-> 0, detail |-> "",
            present |-> FALSE, http |-> 0, body |-> ""]

\* Request ids as secrets.token_urlsafe makes them, and as a caller can type them.
TokenIds == {<<"a">>}
TypedIds == TokenIds \cup {<<"b">>, <<"a", ":">> \o HIST_PNG}
TypedFilenames == AllowedFilenames \cup {<<"x">>}

\* The job has written the artifact and asks for its URL (run_analyze_job
\* calls make_download_url after summary.json and hist.png are on disk).
IssueUrl(req_id, filename) ==
    /\ Cardinality(issued) < MaxIssued
    /\ artifacts' = artifacts \cup {<<req_id, filename>>}
    /\ issued' = issued \cup
          {[url |-> make_download_url(download_signing_key, req_id, filename, now_seconds),
            at |-> now_seconds]}
    /\ UNCHANGED <<clock, download_signing_key, chk>>
    /\ UNCHANGED notSign

\* download_file: the allow-list, the signature check, then p.exists() and the
\* FileResponse. present: whether BASE_OUT_DIR / request_id / filename exists.
download_file(key, request_id, filename, exp, sig, now, present) ==
    IF filename \notin AllowedFilenames
    THEN [code |-> 404, detail |-> "File not found with suffix"]
    ELSE LET v == required_valid_signature(key, request_id, filename, exp, sig, now) IN
         IF v.code # 200 THEN v
         ELSE IF ~present THEN [code |-> 404, detail |-> "File not found"]
         ELSE [code |-> 200, detail |-> "FileResponse"]

\* One request to download_file. code/detail: how the allow-list and the
\* signature check ended; http/body: the response of the endpoint.
check_download(op, request_id, filename, exp, sig, issued_at) ==
    LET res == IF filename \notin AllowedFilenames
               THEN [code |-> 404, detail |-> "File not found with suffix"]
               ELSE required_valid_signature(download_signing_key, request_id, filename,
                                             exp, sig, now_seconds)
        present == <<request_id, filename>> \in artifacts
        out == download_file(download_signing_key, request_id, filename, exp, sig,
                             now_seconds, present)
    IN  chk' = [op |-> op, rid |-> request_id, filename |-> filename, exp |-> exp,
                sig |-> sig, now |-> now_seconds, issued_at |-> issued_at,
                code |-> res.code, detail |-> res.detail,
                present |-> present, http |-> out.code, body |-> out.detail]

\* The sig values a caller can try: any digest seen in an issued URL, a digest
\* under another key, junk.
KnownSigs ==
    {i.url.sig : i \in issued}
    \cup {JunkSig, NonAsciiSig}
    \cup {sign("other", check_message(<<"a">>, HIST_PNG, Epoch + DOWNLOAD_URL_TTL_SECONDS))}

ExpValues == {-1, Epoch + DOWNLOAD_URL_TTL_SECONDS, Epoch + DOWNLOAD_URL_TTL_SECONDS + 1}

CheckTyped ==
    /\ \E request_id \in TypedIds, filename \in TypedFilenames, exp \in ExpValues,
          sig \in KnownSigs :
          check_download("typed", request_id, filename, exp, sig, 0)
    /\ UNCHANGED <<clock, download_signing_key, issued, artifacts>>
    /\ UNCHANGED notSign

\* A client follows an issued /download URL as it is: the framework parses exp.
FollowIssued ==
    /\ \E i \in issued :
          /\ i.url.route = "/download"
          /\ check_download("follow", i.url.rid, i.url.filename, str_to_int(i.url.exp),
                            i.url.sig, i.at)
    /\ UNCHANGED <<clock, download_signing_key, issued, artifacts>>
    /\ UNCHANGED notSign

SignTick ==
    /\ clock < MaxSignClock
    /\ clock' = clock + 1
    /\ UNCHANGED <<signVars, notSign>>

\* The retention sweep takes the request directories away, artifacts included.
SignSweep ==
    /\ artifacts # {}
    /\ artifacts' = {}
    /\ UNCHANGED <<clock, download_signing_key, issued, chk>>
    /\ UNCHANGED notSign

\* ---------------------------------------------------------- streaming ingestion
NoFile == [exists |-> FALSE, size |-> 0]

\* The chunk lengths a stream can deliver: read(CHUNK_SIZE) returns 1..CHUNK_SIZE
\* bytes, and nothing at EOF.
ChunkSeqs == UNION {[1..n -> 1..CHUNK_SIZE] : n \in 0..MaxChunks}

RECURSIVE total(_)
total(seq) == IF seq = <<>> THEN 0 ELSE Head(seq) + total(Tail(seq))

\* Path(upload_dir).mkdir(...), then `with open(outpath, "wb") as f` inside the try.
IngestOpen(how) ==
    /\ ipc = "start"
    /\ CASE how = "ok" ->
              /\ outfile' = [exists |-> TRUE, size |-> 0]
              /\ ipc' = "loop"
              /\ UNCHANGED cause
         [] how = "mkdir fails" ->
              /\ ipc' = "raised"
              /\ cause' = "OSError"
              /\ UNCHANGED outfile
         [] OTHER ->
              /\ ipc' = "cleanup"
              /\ cause' = "OSError"
              /\ UNCHANGED outfile
    /\ UNCHANGED <<chunks, max_bytes, pos, written, rm_failed>>
    /\ UNCHANGED <<clock, appVars, signVars, sweepVars, modelVars, fnVars, ioVars, cacheVars>>

\* A variant that writes the chunk before it checks the limit.
IngestChunk_WriteFirst(how, part) ==
    /\ ipc = "loop"
    /\ IF how = "read fails"
       THEN \* chunk = await upload_file.read(1024 * 1024) raises
            /\ part = 0
            /\ ipc' = "cleanup" /\ cause' = "OSError"
            /\ UNCHANGED <<pos, written, outfile>>
       ELSE IF pos > Len(chunks)
       THEN \* if not chunk: break; leaving the with block closes (flushes) the file
            /\ part = 0
            /\ IF how = "ok"
               THEN ipc' = "returned" /\ UNCHANGED cause
               ELSE ipc' = "cleanup" /\ cause' = "OSError"
            /\ UNCHANGED <<pos, written, outfile>>
       ELSE /\ written' = written + chunks[pos]
            /\ pos' = pos + 1
            /\ IF written' > max_bytes
               THEN \* f.write, then raise ValueError(...)
                    /\ part = 0 /\ how = "ok"
                    /\ ipc' = "cleanup" /\ cause' = "ValueError"
                    /\ outfile' = [exists |-> TRUE, size |-> outfile.size + chunks[pos]]
               ELSE IF how = "write fails"
               THEN /\ part < chunks[pos]
                    /\ outfile' = [exists |-> TRUE, size |-> outfile.size + part]
                    /\ ipc' = "cleanup" /\ cause' = "OSError"
               ELSE \* f.write(chunk)
                    /\ part = 0
                    /\ outfile' = [exists |-> TRUE, size |-> outfile.size + chunks[pos]]
                    /\ UNCHANGED <<ipc, cause>>
    /\ UNCHANGED <<chunks, max_bytes, rm_failed>>
    /\ UNCHANGED <<clock, appVars, signVars, sweepVars, modelVars, fnVars, ioVars, cacheVars>>

\* One turn of the while loop. how: which call raises, if any; part: the bytes
\* of the chunk a failing f.write still got into the file.
IngestChunk(how, part) ==
    /\ ipc = "loop"
    /\ IF how = "read fails"
       THEN \* chunk = await upload_file.read(1024 * 1024) raises
            /\ part = 0
            /\ ipc' = "cleanup" /\ cause' = "OSError"
            /\ UNCHANGED <<pos, written, outfile>>
       ELSE IF pos > Len(chunks)
       THEN \* if not chunk: break; leaving the with block closes (flushes) the file
            /\ part = 0
            /\ IF how = "ok"
               THEN ipc' = "returned" /\ UNCHANGED cause
               ELSE ipc' = "cleanup" /\ cause' = "OSError"
            /\ UNCHANGED <<pos, written, outfile>>
       ELSE /\ written' = written + chunks[pos]
            /\ pos' = pos + 1
            /\ IF written' > max_bytes
               THEN \* raise ValueError(...) before f.write
                    /\ part = 0 /\ how = "ok"
                    /\ ipc' = "cleanup" /\ cause' = "ValueError"
                    /\ UNCHANGED outfile
               ELSE IF how = "write fails"
               THEN /\ part < chunks[pos]
                    /\ outfile' = [exists |-> TRUE, size |-> outfile.size + part]
                    /\ ipc' = "cleanup" /\ cause' = "OSError"
               ELSE \* f.write(chunk)
                    /\ part = 0
                    /\ outfile' = [exists |-> TRUE, size |-> outfile.size + chunks[pos]]
                    /\ UNCHANGED <<ipc, cause>>
    /\ UNCHANGED <<chunks, max_bytes, rm_failed>>
    /\ UNCHANGED <<clock, appVars, signVars, sweepVars, modelVars, fnVars, ioVars, cacheVars>>

\* except Exception: try: if os.path.exists(outpath): os.remove(outpath)
\*                   except Exception: pass
\*                   raise
IngestCleanup(rm_ok) ==
    /\ ipc = "cleanup"
    /\ IF ~outfile.exists
       THEN rm_ok /\ UNCHANGED <<outfile, rm_failed>>
       ELSE IF rm_ok
       THEN outfile' = NoFile /\ UNCHANGED rm_failed
       ELSE rm_failed' = TRUE /\ UNCHANGED outfile
    /\ ipc' = "raised"
    /\ UNCHANGED <<chunks, max_bytes, pos, written, cause>>
    /\ UNCHANGED <<clock, appVars, signVars, sweepVars, modelVars, fnVars, ioVars, cacheVars>>

\* --------------------------------------------------- the sweep as a function
\* cleanup_expired_requests(base_dir, ttl_seconds) called on any state of the
\* directory; resp.n is what it returns.
Sweep ==
    /\ \E outcome \in [expired_subdirs(workDir, base_out_dir_exists, clock, sweepTtl)
                          -> RmtreeOutcomes] :
          LET res == cleanup_expired_requests(workDir, base_out_dir_exists, clock,
                                              sweepTtl, outcome) IN
          /\ workDir' = res.dirs
          /\ resp' = [op |-> "sweep", id |-> 0, code |-> 0, detail |-> "", n |-> res.removed]
    /\ sweepRun' = IF sweepRun < 2 THEN sweepRun + 1 ELSE 2
    /\ UNCHANGED <<clock, admin_token, nextId, statusRec, pc, histOpt, sweepTtl, loopVars>>
    /\ UNCHANGED <<signVars, ingestVars, modelVars, fnVars, ioVars, cacheVars>>

SweepTick ==
    /\ clock < MaxClock
    /\ clock' = clock + 1
    /\ sweepRun' = 0
    /\ UNCHANGED <<appVars, sweepTtl, loopVars, signVars, ingestVars, modelVars, fnVars, ioVars,
                   cacheVars>>

\* What BASE_OUT_DIR can hold under one name at time now.
EntriesAt(now) ==
    {NoDir}
    \cup {[exists |-> TRUE, is_dir |-> FALSE, mtime |-> m, files |-> {}] : m \in 0..now}
    \cup {[exists |-> TRUE, is_dir |-> TRUE, mtime |-> m, files |-> f] :
             m \in 0..now, f \in {{}, {"input.csv"}}}

\* The orders in which iterdir() can yield the names in S.
listings(S) ==
    {s \in [1..Cardinality(S) -> S] : \A i, j \in 1..Cardinality(S) : i # j => s[i] # s[j]}

notLoop == <<admin_token, nextId, statusRec, pc, histOpt, resp, sweepTtl, sweepRun,
             signVars, ingestVars, modelVars, fnVars, ioVars, cacheVars>>

\* continue, or the end of the for loop and return removed
loop_continue == IF Len(llist) > 1 THEN "is_dir" ELSE "returned"

\* now = time.time(); removed = 0; if not base_dir.exists(): return 0;
\* for subdir in base_dir.iterdir()
LoopStart ==
    /\ lpc = "idle"
    /\ lnow' = clock
    /\ lremoved' = 0
    /\ ltried' = <<>>
    /\ IF ~base_out_dir_exists
       THEN llisted' = {} /\ llist' = <<>>
       ELSE /\ llisted' = {r \in Ids : workDir[r].exists}
            /\ llist' \in listings(llisted')
    /\ lpc' = IF llist' = <<>> THEN "returned" ELSE "is_dir"
    /\ lcaught' = {}
    /\ UNCHANGED <<clock, workDir, lmtime, lraised, notLoop>>

\* if not subdir.is_dir(): continue  (a plain file, or a name that is gone)
LoopSkip ==
    /\ lpc = "is_dir"
    /\ LET d == workDir[Head(llist)] IN ~(d.exists /\ d.is_dir)
    /\ lpc' = loop_continue
    /\ llist' = Tail(llist)
    /\ UNCHANGED <<clock, workDir, llisted, lnow, lmtime, lremoved, ltried, lraised, lcaught, notLoop>>

\* subdir.is_dir() is true
LoopIsDir ==
    /\ lpc = "is_dir"
    /\ LET d == workDir[Head(llist)] IN d.exists /\ d.is_dir
    /\ lpc' = "stat"
    /\ UNCHANGED <<clock, workDir, llisted, llist, lnow, lmtime, lremoved, ltried, lraised,
                   lcaught, notLoop>>

\* subdir.stat() raises FileNotFoundError: continue
LoopStatNotFound ==
    /\ lpc = "stat"
    /\ ~workDir[Head(llist)].exists
    /\ lcaught' = lcaught \cup {Head(llist)}
    /\ lpc' = loop_continue
    /\ llist' = Tail(llist)
    /\ UNCHANGED <<clock, workDir, llisted, lnow, lmtime, lremoved, ltried, lraised, notLoop>>

\* mtime = subdir.stat().st_mtime
LoopStat ==
    /\ lpc = "stat"
    /\ workDir[Head(llist)].exists
    /\ lmtime' = workDir[Head(llist)].mtime
    /\ lpc' = "compare"
    /\ UNCHANGED <<clock, workDir, llisted, llist, lnow, lremoved, ltried, lraised, lcaught, notLoop>>

\* now - mtime > ttl_seconds is false: next subdir
LoopFresh ==
    /\ lpc = "compare"
    /\ ~(lnow - lmtime > sweepTtl * TicksPerSecond)
    /\ lpc' = loop_continue
    /\ llist' = Tail(llist)
    /\ UNCHANGED <<clock, workDir, llisted, lnow, lmtime, lremoved, ltried, lraised, lcaught, notLoop>>

\* A variant in which an rmtree that fails ends the call with its exception.
LoopDelete_AbortOnError(outcome) ==
    /\ lpc = "compare"
    /\ lnow - lmtime > sweepTtl * TicksPerSecond
    /\ LET subdir == Head(llist) IN
          /\ workDir' = [workDir EXCEPT ![subdir] = rmtree(@, outcome, clock)]
          /\ ltried' = Append(ltried, subdir)
          /\ IF workDir'[subdir].exists
             THEN lraised' = TRUE /\ lpc' = "returned" /\ lremoved' = lremoved
             ELSE lraised' = lraised /\ lpc' = loop_continue /\ lremoved' = lremoved + 1
    /\ llist' = Tail(llist)
    /\ UNCHANGED <<clock, llisted, lnow, lmtime, lcaught, notLoop>>

\* shutil.rmtree(subdir, ignore_errors=True); removed += 1
LoopDelete(outcome) ==
    /\ lpc = "compare"
    /\ lnow - lmtime > sweepTtl * TicksPerSecond
    /\ LET subdir == Head(llist) IN
          /\ workDir' = [workDir EXCEPT ![subdir] = rmtree(@, outcome, clock)]
          /\ ltried' = Append(ltried, subdir)
    /\ lremoved' = lremoved + 1
    /\ lpc' = loop_continue
    /\ llist' = Tail(llist)
    /\ UNCHANGED <<clock, llisted, lnow, lmtime, lraised, lcaught, notLoop>>

\* Another admin_cleanup request, handled on another worker thread while this
\* one is in its loop, removes a subdirectory that is old enough.
ConcurrentRmtree(r) ==
    /\ lpc \notin {"idle", "returned"}
    /\ base_out_dir_exists
    /\ expired(workDir[r], clock, sweepTtl)
    /\ workDir' = [workDir EXCEPT ![r] = NoDir]
    /\ UNCHANGED <<clock, loopVars, notLoop>>

LoopTick ==
    /\ lpc \notin {"idle", "returned"}
    /\ clock < MaxClock
    /\ clock' = clock + 1
    /\ UNCHANGED <<workDir, loopVars, notLoop>>

\* ------------------------------------------------------------- model cache
\* What the file at settings.model_path can be: absent, not a loadable bundle,
\* or one of two bundles.
Bundles == {"bundle1", "bundle2"}
ModelFiles == {"missing", "malformed"} \cup Bundles

NoCall == [op |-> "none", before |-> "None", hit |-> FALSE, out |-> "none"]

\* load_iforest(path): c is _cache, file what joblib.load finds. Returns the
\* new _cache, what the caller gets (a bundle or "raised") and whether the
\* cached bundle was returned without reading the file.
load_iforest(c, file) ==
    IF c # "None" THEN [cache |-> c, out |-> c, hit |-> TRUE]
    ELSE IF file \notin Bundles THEN [cache |-> "None", out |-> "raised", hit |-> FALSE]
    ELSE [cache |-> file, out |-> file, hit |-> FALSE]

\* A variant that puts the old bundle back when the load fails.
reload_iforest_RollBack(c, file) ==
    LET r == load_iforest("None", file) IN
    IF r.out = "raised" THEN [r EXCEPT !.cache = c] ELSE r

\* reload_iforest(path): _cache = None; return load_iforest(path)
reload_iforest(c, file) == load_iforest("None", file)

\* Some caller runs load_iforest(settings.model_path).
LoadModel ==
    /\ LET r == load_iforest(cache, model_file) IN
          /\ cache' = r.cache
          /\ mres' = [op |-> "load", before |-> cache, hit |-> r.hit, out |-> r.out]
    /\ UNCHANGED <<model_file, adminReq>>
    /\ UNCHANGED <<clock, appVars, signVars, ingestVars, sweepVars, fnVars, ioVars, cacheVars>>

\* Some caller runs reload_iforest(settings.model_path).
ReloadModel ==
    /\ LET r == reload_iforest(cache, model_file) IN
          /\ cache' = r.cache
          /\ mres' = [op |-> "reload", before |-> cache, hit |-> r.hit, out |-> r.out]
    /\ UNCHANGED <<model_file, adminReq>>
    /\ UNCHANGED <<clock, appVars, signVars, ingestVars, sweepVars, fnVars, ioVars, cacheVars>>

\* The model file is replaced, damaged or deleted on disk.
ModelFileChange ==
    /\ \E f \in ModelFiles : f # model_file /\ model_file' = f
    /\ UNCHANGED <<cache, mres, adminReq>>
    /\ UNCHANGED <<clock, appVars, signVars, ingestVars, sweepVars, fnVars, ioVars, cacheVars>>

\* admin_reload_model: POST /admin/reload-model
admin_reload_model(x_admin_token) ==
    IF unauthorized(x_admin_token)
    THEN /\ resp' = [op |-> "reload", id |-> 0, code |-> 401, detail |-> "Unauthorized", n |-> 0]
         /\ UNCHANGED <<cache, mres>>
    ELSE LET r == reload_iforest(cache, model_file) IN
         /\ cache' = r.cache
         /\ mres' = [op |-> "reload", before |-> cache, hit |-> r.hit, out |-> r.out]
         /\ resp' = IF r.out = "raised"
                    THEN [op |-> "reload", id |-> 0, code |-> 500,
                          detail |-> "Model load failed", n |-> 0]
                    ELSE [op |-> "reload", id |-> 0, code |-> 200, detail |-> r.out, n |-> 0]

AdminReloadModel ==
    /\ \E x_admin_token \in HeaderValues :
          /\ admin_reload_model(x_admin_token)
          /\ adminReq' = [op |-> "reload", header |-> x_admin_token]
    /\ UNCHANGED <<clock, admin_token, nextId, workDir, statusRec, pc, histOpt, model_file>>
    /\ UNCHANGED <<signVars, ingestVars, sweepVars, fnVars, ioVars, cacheVars>>

\* POST /admin/cleanup, the header of the request kept in adminReq.
AdminCleanupRequest ==
    /\ \E x_admin_token \in HeaderValues :
          /\ \E outcome \in [expired_subdirs(workDir, base_out_dir_exists, clock,
                                             RESULT_TTL_SECONDS) -> RmtreeOutcomes] :
                admin_cleanup(x_admin_token, outcome)
          /\ adminReq' = [op |-> "cleanup", header |-> x_admin_token]
    /\ UNCHANGED <<clock, admin_token, nextId, statusRec, pc, histOpt>>
    /\ UNCHANGED <<cache, model_file, mres>>
    /\ UNCHANGED <<signVars, ingestVars, sweepVars, fnVars, ioVars, cacheVars>>

\* ------------------------------------------------------- file type validation
\* Text is a sequence of characters. The characters filenames are made of here:
\* a lower-case letter, an upper-case letter, the dot and the path separator.
FileChars == {"a", "P", ".", "/"}
FileNames == UNION {[1..k -> FileChars] : k \in 0..MaxNameLen}

\* str.lower(), character by character.
lower_char(c) == IF c = "P" THEN "p" ELSE IF c = "T" THEN "t" ELSE c
lower(str) == [i \in 1..Len(str) |-> lower_char(str[i])]

\* Path(filename).name: the last component that is neither empty nor ".".
RECURSIVE path_name(_, _, _)
path_name(str, cur, last) ==
    IF str = <<>>
    THEN IF cur \in {<<>>, <<".">>} THEN last ELSE cur
    ELSE IF Head(str) = "/"
    THEN path_name(Tail(str), <<>>, IF cur \in {<<>>, <<".">>} THEN last ELSE cur)
    ELSE path_name(Tail(str), Append(cur, Head(str)), last)

\* PurePath.suffix: from the last dot of the name, unless that dot is the
\* first or the last character of the name (or there is none).
suffix(name) ==
    LET dots == {i \in 1..Len(name) : name[i] = "."} IN
    IF dots = {} THEN <<>>
    ELSE LET i == CHOOSE d \in dots : \A e \in dots : e <= d IN
         IF 1 < i /\ i < Len(name) THEN SubSeq(name, i, Len(name)) ELSE <<>>

\* _safe_ext: Path(filename).suffix.lower()
safe_ext(filename) == lower(suffix(path_name(filename, <<>>, <<>>)))

\* The content_type arguments: None, the empty string and three types.
NoneValue == <<"<None>">>
ContentTypes == {NoneValue, <<>>, <<"t">>, <<"T">>, <<"x">>}
ExtPool == {<<>>, <<".", "p">>, <<".", "P">>}
MimePool == {<<>>, <<"t">>, <<"T">>}

ValueError(msg) == [done |-> TRUE, raised |-> msg, ext |-> <<>>, mime |-> <<>>]

\* A variant that looks at the MIME type before the extension.
validate_file_type_strict_MimeFirst(filename, content_type, allowed_ext, allowed_mime) ==
    LET ext == safe_ext(filename)
        mine == lower(IF content_type = NoneValue THEN <<>> ELSE content_type)
    IN  IF mine = <<>> THEN ValueError("MIME type is missing.")
        ELSE IF mine \notin allowed_mime THEN ValueError("MIME type is not allowed.")
        ELSE IF ext = <<>> THEN ValueError("File extension is missing.")
        ELSE IF ext \notin allowed_ext THEN ValueError("File extension is not allowed.")
        ELSE [done |-> TRUE, raised |-> "", ext |-> ext, mime |-> mine]

validate_file_type_strict(filename, content_type, allowed_ext, allowed_mime) ==
    LET ext == safe_ext(filename)
        mine == lower(IF content_type = NoneValue THEN <<>> ELSE content_type)
    IN  IF ext = <<>> THEN ValueError("File extension is missing.")
        ELSE IF ext \notin allowed_ext THEN ValueError("File extension is not allowed.")
        ELSE IF mine = <<>> THEN ValueError("MIME type is missing.")
        ELSE IF mine \notin allowed_mime THEN ValueError("MIME type is not allowed.")
        ELSE [done |-> TRUE, raised |-> "", ext |-> ext, mime |-> mine]

Validate ==
    /\ fnIn.fn = "validate"
    /\ ~fnOut.done
    /\ fnOut' = validate_file_type_strict(fnIn.filename, fnIn.content_type,
                                          fnIn.allowed_ext, fnIn.allowed_mime)
    /\ UNCHANGED fnIn
    /\ UNCHANGED notFn

\* ---------------------------------------------------------- anomaly detection
\* A table as detect_anomalies sees it: the row labels (df.index, as read_csv
\* and basic_clean leave them: increasing, with gaps where rows were dropped),
\* how many numeric columns it has, and whether the numeric cells are all
\* finite, hold a NaN, or hold an infinity.
Labels == 0..MaxLabel
LabelSeqs ==
    {sq \in UNION {[1..n -> Labels] : n \in 0..MaxRows} :
        \A i \in 1..Len(sq), j \in 1..Len(sq) : i < j => sq[i] < sq[j]}
CellKinds == {"finite", "nan", "inf"}
TopKs == {-1, 0, 1, 2, MaxRows - 1, MaxRows, MaxRows + 1}

\* What IsolationForest.fit and score_samples can do on n rows: raise
\* ValueError (always for an infinity; for a NaN it depends on the library
\* version), or give every row a normality score (negative: the more negative,
\* the less normal).
FitOutcomes(n, cells) ==
    (IF cells = "finite" THEN {} ELSE {[raised |-> TRUE, normality |-> <<>>]})
    \cup (IF cells = "inf" THEN {}
          ELSE {[raised |-> FALSE, normality |-> f] : f \in [1..n -> (-MaxScore)..(-1)]})

\* The orders of the positions in rem by non-increasing dir * score; which
\* of two equal scores comes first is left to the sort.
RECURSIVE orders_by(_, _, _)
orders_by(scores, rem, dir) ==
    IF rem = {} THEN {<<>>}
    ELSE LET first == {i \in rem : \A j \in rem : dir * scores[i] >= dir * scores[j]} IN
         UNION {{<<i>> \o t : t \in orders_by(scores, rem \ {i}, dir)} : i \in first}

\* A variant that sorts ascending.
sort_values_asc(scores) == orders_by(scores, 1..Len(scores), -1)

\* pd.Series(scores, index=df.index).sort_values(ascending=False)
sort_values_desc(scores) == orders_by(scores, 1..Len(scores), 1)

\* A variant without the lower bound of 1.
clamp_top_k_NoFloor(top_k, n) == IF top_k < n THEN top_k ELSE n

\* top_k = max(1, min(int(top_k), len(scores)))
clamp_top_k(top_k, n) ==
    LET m == IF top_k < n THEN top_k ELSE n IN
    IF m > 1 THEN m ELSE 1

NoResult == [done |-> TRUE, raised |-> "", absent |-> TRUE, indices |-> <<>>,
             scores |-> <<>>, normality |-> <<>>]

\* The results detect_anomalies(df, top_k) can give.
detect_anomalies(labels, ncols, cells, top_k) ==
    IF ncols = 0 \/ Len(labels) < MIN_ROWS THEN {NoResult}
    ELSE UNION {
        IF fit.raised
        THEN {[NoResult EXCEPT !.raised = "ValueError", !.absent = FALSE]}
        ELSE LET scores == [i \in 1..Len(labels) |-> -fit.normality[i]]
                 k == clamp_top_k(top_k, Len(scores))
             IN  IF k < 0 THEN {}
                 ELSE {[done |-> TRUE, raised |-> "", absent |-> FALSE,
                        indices |-> [i \in 1..k |-> labels[p[i]]],
                        scores |-> [i \in 1..k |-> scores[p[i]]],
                        normality |-> fit.normality] : p \in sort_values_desc(scores)}
        : fit \in FitOutcomes(Len(labels), cells)}

Detect ==
    /\ fnIn.fn = "detect"
    /\ ~fnOut.done
    /\ fnOut' \in detect_anomalies(fnIn.labels, fnIn.ncols, fnIn.cells, fnIn.top_k)
    /\ UNCHANGED fnIn
    /\ UNCHANGED notFn

\* ------------------------------------------------------------- data cleaning
\* A table as basic_clean sees it: column names and rows of cells, a cell
\* being missing (NaN/None) or one of two values. Row i has label i - 1.
NA == "NA"
CellValues == {NA, "x", "y"}
ColumnNames == {<<"a">>, <<" ", "a">>, <<"b", " ">>}
Tables ==
    UNION {[columns : [1..c -> ColumnNames],
            rows : UNION {[1..n -> [1..c -> CellValues]] : n \in 0..MaxCleanRows}]
           : c \in 1..MaxCols}

\* str.strip() for blanks.
RECURSIVE lstrip(_)
lstrip(str) == IF str # <<>> /\ Head(str) = " " THEN lstrip(Tail(str)) ELSE str
RECURSIVE rstrip(_)
rstrip(str) ==
    IF str # <<>> /\ str[Len(str)] = " " THEN rstrip(SubSeq(str, 1, Len(str) - 1)) ELSE str
strip(str) == rstrip(lstrip(str))

\* A variant that drops a row as soon as one cell is missing.
dropna_any(labels, rows) ==
    SelectSeq(labels, LAMBDA i : \A c \in DOMAIN rows[i] : rows[i][c] # NA)

\* df.dropna(how="all"): the labels of the rows with at least one cell present.
dropna_all(labels, rows) ==
    SelectSeq(labels, LAMBDA i : \E c \in DOMAIN rows[i] : rows[i][c] # NA)

\* df.drop_duplicates(): keep="first"; missing cells compare equal.
RECURSIVE drop_duplicates(_, _, _)
drop_duplicates(labels, rows, kept) ==
    IF labels = <<>> THEN kept
    ELSE LET i == Head(labels) IN
         IF \E k \in 1..Len(kept) : rows[kept[k]] = rows[i]
         THEN drop_duplicates(Tail(labels), rows, kept)
         ELSE drop_duplicates(Tail(labels), rows, Append(kept, i))

\* basic_clean followed by summarize: the labels (1-based here) and cells of
\* the rows left, the column names, and Summary.rows / Summary.cols.
basic_clean(t) ==
    LET all == [i \in 1..Len(t.rows) |-> i]
        left == drop_duplicates(dropna_all(all, t.rows), t.rows, <<>>)
    IN  [done |-> TRUE,
         index |-> left,
         rows |-> [k \in 1..Len(left) |-> t.rows[left[k]]],
         columns |-> [c \in 1..Len(t.columns) |-> strip(t.columns[c])],
         summary_rows |-> Len(left),
         summary_cols |-> Len(t.columns)]

Clean ==
    /\ fnIn.fn = "clean"
    /\ ~fnOut.done
    /\ fnOut' = basic_clean(fnIn.table)
    /\ UNCHANGED fnIn
    /\ UNCHANGED notFn

\* ----------------------------------------------------- status file, step by step
\* The statuses run_analyze_job writes after the one on disk.
NextStatuses(st) ==
    CASE st = "none" -> {"queued"}
      [] st = "queued" -> {"running"}
      [] st = "running" -> {"done", "failed"}
      [] OTHER -> {}

\* write_status, first half: p.write_text(...) opens the file with mode "w",
\* which truncates it. The queued record is written by analyze_upload itself;
\* the later ones by run_analyze_job, a background task, which the framework
\* runs once the response has been sent.
WriteOpen(r) ==
    /\ wpc[r] = "idle"
    /\ apc[r] = IF wnew[r] = "none" THEN "new" ELSE "returned"
    /\ \E st \in NextStatuses(wnew[r]) : wnew' = [wnew EXCEPT ![r] = st]
    /\ sfile' = [sfile EXCEPT ![r] = ""]
    /\ wpc' = [wpc EXCEPT ![r] = "opened"]
    /\ UNCHANGED <<rpc, rres, apc>>
    /\ UNCHANGED notIo

\* write_status, second half: the serialized record is written and the file
\* closed.
WriteClose(r) ==
    /\ wpc[r] = "opened"
    /\ sfile' = [sfile EXCEPT ![r] = wnew[r]]
    /\ wpc' = [wpc EXCEPT ![r] = "idle"]
    /\ apc' = [apc EXCEPT ![r] = IF @ = "new" THEN "written" ELSE @]
    /\ UNCHANGED <<wnew, rpc, rres>>
    /\ UNCHANGED notIo

\* analyze_upload: background_tasks.add_task(run_analyze_job, req_id, hist, top_k)
AcceptSchedule(r) ==
    /\ apc[r] = "written"
    /\ apc' = [apc EXCEPT ![r] = "scheduled"]
    /\ UNCHANGED <<sfile, wpc, wnew, rpc, rres>>
    /\ UNCHANGED notIo

\* analyze_upload: return AnalyzeAcceptedResponse(request_id=req_id, ...)
AcceptReturn(r) ==
    /\ apc[r] = "scheduled"
    /\ apc' = [apc EXCEPT ![r] = "returned"]
    /\ UNCHANGED <<sfile, wpc, wnew, rpc, rres>>
    /\ UNCHANGED notIo

\* read_status, first half: p.exists(), for a request id a client was given
\* (status.json is never deleted here).
ReadExists(r) ==
    /\ rpc.at = "idle"
    /\ apc[r] = "returned"
    /\ rpc' = [at |-> "exists", id |-> r, found |-> sfile[r] # "none"]
    /\ UNCHANGED <<sfile, wpc, wnew, rres, apc>>
    /\ UNCHANGED notIo

\* read_status, second half: raise None when p.exists() was false (a
\* TypeError), else json.loads(p.read_text()); an empty document makes
\* json.loads raise JSONDecodeError. prev/new: the record complete on disk
\* before the write under way, and the record being written.
ReadText ==
    /\ rpc.at = "exists"
    /\ LET r == rpc.id IN
       rres' = [done |-> TRUE, id |-> r,
                value |-> IF ~rpc.found THEN "TypeError"
                          ELSE IF sfile[r] = "" THEN "JSONDecodeError" ELSE sfile[r],
                prev |-> IF wpc[r] = "idle" THEN wnew[r]
                         ELSE CHOOSE st \in {"none", "queued", "running"} :
                                 wnew[r] \in NextStatuses(st),
                new |-> wnew[r]]
    /\ rpc' = [at |-> "idle", id |-> 0, found |-> FALSE]
    /\ UNCHANGED <<sfile, wpc, wnew, apc>>
    /\ UNCHANGED notIo

\* ------------------------------------------------- model cache, thread by thread
Threads == 1..MaxThreads

\* None, and the IsolationForestBundle built from what joblib.load returned:
\* model=obj["model"], feature_columns=list(obj["features"]), both named here
\* after the file version they came from.
NoBundle == [model |-> "None", features |-> "None"]
IsolationForestBundle(obj) == [model |-> obj, features |-> obj]

\* A thread enters load_iforest or reload_iforest.
ThreadCall(t) ==
    /\ tpc[t] = "idle"
    /\ \E op \in {"load", "reload"} :
          /\ top' = [top EXCEPT ![t] = op]
          /\ tpc' = [tpc EXCEPT ![t] = IF op = "reload" THEN "invalidate" ELSE "check"]
    /\ UNCHANGED <<slot, tloc, tres, lastStore, model_file, cache, mres, adminReq>>
    /\ UNCHANGED notCache

\* reload_iforest: _cache = None
ThreadInvalidate(t) ==
    /\ tpc[t] = "invalidate"
    /\ slot' = NoBundle
    /\ lastStore' = NoBundle
    /\ tpc' = [tpc EXCEPT ![t] = "check"]
    /\ UNCHANGED <<top, tloc, tres, model_file, cache, mres, adminReq>>
    /\ UNCHANGED notCache

\* load_iforest: if _cache is not None
ThreadCheck(t) ==
    /\ tpc[t] = "check"
    /\ tpc' = [tpc EXCEPT ![t] = IF slot # NoBundle THEN "return_cached" ELSE "read"]
    /\ UNCHANGED <<slot, top, tloc, tres, lastStore, model_file, cache, mres, adminReq>>
    /\ UNCHANGED notCache

\* load_iforest: return _cache (the global is read again)
ThreadReturnCached(t) ==
    /\ tpc[t] = "return_cached"
    /\ tres' = [tres EXCEPT ![t] = [kind |-> "returned", value |-> slot]]
    /\ tpc' = [tpc EXCEPT ![t] = "done"]
    /\ UNCHANGED <<slot, top, tloc, lastStore, model_file, cache, mres, adminReq>>
    /\ UNCHANGED notCache

\* load_iforest: obj = joblib.load(p); bundle = IsolationForestBundle(...)
ThreadRead(t) ==
    /\ tpc[t] = "read"
    /\ IF model_file \in Bundles
       THEN /\ tloc' = [tloc EXCEPT ![t] = IsolationForestBundle(model_file)]
            /\ tpc' = [tpc EXCEPT ![t] = "store"]
            /\ UNCHANGED tres
       ELSE /\ tres' = [tres EXCEPT ![t] = [kind |-> "raised", value |-> NoBundle]]
            /\ tpc' = [tpc EXCEPT ![t] = "done"]
            /\ UNCHANGED tloc
    /\ UNCHANGED <<slot, top, lastStore, model_file, cache, mres, adminReq>>
    /\ UNCHANGED notCache

\* A variant that updates the cached bundle field by field when there is one.
ThreadStore_InPlace(t) ==
    /\ tpc[t] = "store"
    /\ slot' = IF slot = NoBundle THEN tloc[t]
               ELSE [model |-> tloc[t].model, features |-> slot.features]
    /\ lastStore' = tloc[t]
    /\ tres' = [tres EXCEPT ![t] = [kind |-> "returned", value |-> tloc[t]]]
    /\ tpc' = [tpc EXCEPT ![t] = "done"]
    /\ UNCHANGED <<top, tloc, model_file, cache, mres, adminReq>>
    /\ UNCHANGED notCache

\* load_iforest: _cache = bundle; return bundle
ThreadStore(t) ==
    /\ tpc[t] = "store"
    /\ slot' = tloc[t]
    /\ lastStore' = tloc[t]
    /\ tres' = [tres EXCEPT ![t] = [kind |-> "returned", value |-> tloc[t]]]
    /\ tpc' = [tpc EXCEPT ![t] = "done"]
    /\ UNCHANGED <<top, tloc, model_file, cache, mres, adminReq>>
    /\ UNCHANGED notCache

\* The model file is replaced, damaged or deleted while threads are at work.
ThreadFileChange ==
    /\ \E t \in Threads : tpc[t] \notin {"idle", "done"}
    /\ \E f \in ModelFiles : f # model_file /\ model_file' = f
    /\ UNCHANGED <<cache, mres, adminReq>>
    /\ UNCHANGED cacheVars
    /\ UNCHANGED notCache

\* ------------------------------------------------------------- specification
InitApp ==
    /\ nextId = 1
    /\ workDir = [r \in Ids |-> NoDir]
    /\ statusRec = [r \in Ids |-> "none"]
    /\ pc = [r \in Ids |-> "idle"]
    /\ histOpt = [r \in Ids |-> FALSE]
    /\ resp = NoResp

InitSign ==
    /\ issued = {}
    /\ chk = NoCheck
    /\ artifacts = {}

\* No ingestion call and no sweep call under way.
InitIngest ==
    /\ chunks = <<>>
    /\ max_bytes = 0
    /\ pos = 1
    /\ written = 0
    /\ outfile = NoFile
    /\ ipc = "idle"
    /\ cause = ""
    /\ rm_failed = FALSE

InitLoop ==
    /\ lpc = "idle"
    /\ llisted = {}
    /\ llist = <<>>
    /\ lnow = 0
    /\ lmtime = 0
    /\ lremoved = 0
    /\ ltried = <<>>
    /\ lraised = FALSE
    /\ lcaught = {}

InitSweep ==
    /\ sweepTtl = RESULT_TTL_SECONDS
    /\ sweepRun = 0
    /\ InitLoop

\* Every request accepted and its queued record on disk; nobody reading.
InitIo ==
    /\ sfile = [r \in Ids |-> "queued"]
    /\ wpc = [r \in Ids |-> "idle"]
    /\ wnew = [r \in Ids |-> "queued"]
    /\ rpc = [at |-> "idle", id |-> 0, found |-> FALSE]
    /\ rres = [done |-> FALSE, id |-> 0, value |-> "", prev |-> "", new |-> ""]
    /\ apc = [r \in Ids |-> "returned"]

\* No submission yet: no status file, nobody reading.
InitAccept ==
    /\ sfile = [r \in Ids |-> "none"]
    /\ wpc = [r \in Ids |-> "idle"]
    /\ wnew = [r \in Ids |-> "none"]
    /\ rpc = [at |-> "idle", id |-> 0, found |-> FALSE]
    /\ rres = [done |-> FALSE, id |-> 0, value |-> "", prev |-> "", new |-> ""]
    /\ apc = [r \in Ids |-> "new"]

\* No thread in the model store.
InitCache ==
    /\ slot = [model |-> "None", features |-> "None"]
    /\ tpc = [t \in 1..MaxThreads |-> "idle"]
    /\ top = [t \in 1..MaxThreads |-> "none"]
    /\ tloc = [t \in 1..MaxThreads |-> [model |-> "None", features |-> "None"]]
    /\ tres = [t \in 1..MaxThreads |-> [kind |-> "pending",
                                         value |-> [model |-> "None", features |-> "None"]]]
    /\ lastStore = [model |-> "None", features |-> "None"]

\* No library call under check.
InitFn ==
    /\ fnIn = [fn |-> "none"]
    /\ fnOut = [done |-> FALSE]

\* _cache: IsolationForestBundle | None = None; no call made yet.
InitModel ==
    /\ cache = "None"
    /\ model_file = "bundle1"
    /\ mres = NoCall
    /\ adminReq = [op |-> "none", header |-> NoHeader]

Init ==
    /\ clock = 0
    /\ admin_token \in {"", "secret"}
    /\ InitApp
    /\ download_signing_key = ""
    /\ InitSign
    /\ InitIngest
    /\ InitSweep
    /\ InitModel
    /\ InitFn
    /\ InitIo
    /\ InitCache

Next ==
    \/ Submit
    \/ \E r \in Ids : run_analyze_job(r)
    \/ \E r \in Ids : GetStatus(r)
    \/ AdminCleanup
    \/ Tick

Spec == Init /\ [][Next]_vars

\* The signed-URL service alone: URLs are issued and checked as time passes.
InitSignSpec ==
    /\ clock = 0
    /\ admin_token = ""
    /\ InitApp
    /\ download_signing_key \in {"", "key"}
    /\ InitSign
    /\ InitIngest
    /\ InitSweep
    /\ InitModel
    /\ InitFn
    /\ InitIo
    /\ InitCache

NextSign ==
    \/ \E req_id \in TokenIds, filename \in AllowedFilenames : IssueUrl(req_id, filename)
    \/ CheckTyped
    \/ FollowIssued
    \/ SignTick
    \/ SignSweep

SpecSign == InitSignSpec /\ [][NextSign]_vars

\* One call of save_upload_file_streaming, for every stream and every limit.
InitIngestSpec ==
    /\ clock = 0
    /\ admin_token = ""
    /\ InitApp
    /\ download_signing_key = ""
    /\ InitSign
    /\ InitSweep
    /\ chunks \in ChunkSeqs
    /\ max_bytes \in 0..MaxMaxBytes
    /\ pos = 1
    /\ written = 0
    /\ outfile = NoFile
    /\ ipc = "start"
    /\ cause = ""
    /\ rm_failed = FALSE
    /\ InitModel
    /\ InitFn
    /\ InitIo
    /\ InitCache

\* save_upload_file_streaming, step by step
NextIngest ==
    \/ \E how \in {"ok", "mkdir fails", "open fails"} : IngestOpen(how)
    \/ \E how \in {"ok", "read fails", "write fails"}, part \in 0..(CHUNK_SIZE - 1) :
          IngestChunk(how, part)
    \/ \E rm_ok \in BOOLEAN : IngestCleanup(rm_ok)

SpecIngest == InitIngestSpec /\ [][NextIngest]_vars

\* cleanup_expired_requests called again and again on any directory state.
\* nextId = 1: BASE_OUT_DIR was never made; otherwise every id has been used.
InitSweepSpec ==
    /\ clock \in 0..MaxClock
    /\ admin_token = ""
    /\ nextId \in {1, MaxReq + 1}
    /\ workDir \in [Ids -> EntriesAt(clock)]
    /\ nextId = 1 => workDir = [r \in Ids |-> NoDir]
    /\ statusRec = [r \in Ids |-> "none"]
    /\ pc = [r \in Ids |-> "idle"]
    /\ histOpt = [r \in Ids |-> FALSE]
    /\ resp = NoResp
    /\ download_signing_key = ""
    /\ InitSign
    /\ InitIngest
    /\ sweepTtl \in 0..MaxTtl
    /\ sweepRun = 0
    /\ InitLoop
    /\ InitModel
    /\ InitFn
    /\ InitIo
    /\ InitCache

NextSweep ==
    \/ Sweep
    \/ SweepTick

SpecSweep == InitSweepSpec /\ [][NextSweep]_vars

\* One run of cleanup_expired_requests on any directory state, iteration by
\* iteration, with the clock and a concurrent sweep moving in between.
NextSweepLoop ==
    \/ LoopStart
    \/ LoopSkip
    \/ LoopIsDir
    \/ LoopStatNotFound
    \/ LoopStat
    \/ LoopFresh
    \/ \E outcome \in RmtreeOutcomes : LoopDelete(outcome)
    \/ \E r \in Ids : ConcurrentRmtree(r)
    \/ LoopTick

SpecSweepLoop == InitSweepSpec /\ [][NextSweepLoop]_vars

\* The service at rest, for the specifications of single library calls.
InitIdle ==
    /\ clock = 0
    /\ admin_token = ""
    /\ InitApp
    /\ download_signing_key = ""
    /\ InitSign
    /\ InitIngest
    /\ InitSweep
    /\ InitModel
    /\ InitIo
    /\ InitCache

\* validate_file_type_strict on every filename, content type and pair of
\* allow-lists.
InitValidateSpec ==
    /\ InitIdle
    /\ fnIn \in [fn : {"validate"}, filename : FileNames, content_type : ContentTypes,
                 allowed_ext : SUBSET ExtPool, allowed_mime : SUBSET MimePool]
    /\ fnOut = [done |-> FALSE]

NextValidate == Validate

SpecValidate == InitValidateSpec /\ [][NextValidate]_vars

\* detect_anomalies on every table shape and every top_k.
InitAnomalySpec ==
    /\ InitIdle
    /\ fnIn \in [fn : {"detect"}, labels : LabelSeqs, ncols : {0, 1}, cells : CellKinds,
                 top_k : TopKs]
    /\ fnIn.ncols = 0 => fnIn.cells = "finite"
    /\ fnOut = [done |-> FALSE]

NextAnomaly == Detect

SpecAnomaly == InitAnomalySpec /\ [][NextAnomaly]_vars

\* basic_clean and summarize on every small table.
InitCleanSpec ==
    /\ InitIdle
    /\ fnIn \in [fn : {"clean"}, table : Tables]
    /\ fnOut = [done |-> FALSE]

NextClean == Clean

SpecClean == InitCleanSpec /\ [][NextClean]_vars

\* Jobs writing their status files while a client polls.
InitStatusIoSpec ==
    /\ InitIdle
    /\ InitFn

NextStatusIo ==
    \/ \E r \in Ids : WriteOpen(r)
    \/ \E r \in Ids : WriteClose(r)
    \/ \E r \in Ids : ReadExists(r)
    \/ ReadText

SpecStatusIo == InitStatusIoSpec /\ [][NextStatusIo]_vars

\* Submissions from their first status write on, their jobs, and clients
\* polling the ids they were given.
InitAcceptSpec ==
    /\ clock = 0
    /\ admin_token = ""
    /\ InitApp
    /\ download_signing_key = ""
    /\ InitSign
    /\ InitIngest
    /\ InitSweep
    /\ InitModel
    /\ InitFn
    /\ InitAccept
    /\ InitCache

NextAccept ==
    \/ \E r \in Ids : WriteOpen(r)
    \/ \E r \in Ids : WriteClose(r)
    \/ \E r \in Ids : AcceptSchedule(r)
    \/ \E r \in Ids : AcceptReturn(r)
    \/ \E r \in Ids : ReadExists(r)
    \/ ReadText

SpecAccept == InitAcceptSpec /\ [][NextAccept]_vars

\* Threads calling load_iforest and reload_iforest at the same time, on an
\* empty or an occupied cache.
InitCacheSpec ==
    /\ clock = 0
    /\ admin_token = ""
    /\ InitApp
    /\ download_signing_key = ""
    /\ InitSign
    /\ InitIngest
    /\ InitSweep
    /\ InitIo
    /\ InitFn
    /\ cache = "None"
    /\ model_file \in ModelFiles
    /\ mres = NoCall
    /\ adminReq = [op |-> "none", header |-> NoHeader]
    /\ slot \in {NoBundle} \cup {IsolationForestBundle(b) : b \in Bundles}
    /\ lastStore = slot
    /\ tpc = [t \in Threads |-> "idle"]
    /\ top = [t \in Threads |-> "none"]
    /\ tloc = [t \in Threads |-> NoBundle]
    /\ tres = [t \in Threads |-> [kind |-> "pending", value |-> NoBundle]]

NextCache ==
    \/ \E t \in Threads : ThreadCall(t)
    \/ \E t \in Threads : ThreadInvalidate(t)
    \/ \E t \in Threads : ThreadCheck(t)
    \/ \E t \in Threads : ThreadReturnCached(t)
    \/ \E t \in Threads : ThreadRead(t)
    \/ \E t \in Threads : ThreadStore(t)
    \/ ThreadFileChange

SpecCache == InitCacheSpec /\ [][NextCache]_vars

\* The admin endpoints and the model cache: request directories age, the
\* model file changes on disk, callers load and reload the model.
InitAdminSpec ==
    /\ clock = 0
    /\ admin_token \in {"", "secret"}
    /\ nextId = MaxReq + 1
    /\ workDir \in [Ids -> {NoDir, [exists |-> TRUE, is_dir |-> TRUE, mtime |-> 0,
                                     files |-> {"input.csv"}]}]
    /\ statusRec = [r \in Ids |-> "none"]
    /\ pc = [r \in Ids |-> "idle"]
    /\ histOpt = [r \in Ids |-> FALSE]
    /\ resp = NoResp
    /\ download_signing_key = ""
    /\ InitSign
    /\ InitIngest
    /\ InitSweep
    /\ cache = "None"
    /\ model_file \in ModelFiles
    /\ mres = NoCall
    /\ adminReq = [op |-> "none", header |-> NoHeader]
    /\ InitFn
    /\ InitIo
    /\ InitCache

NextAdmin ==
    \/ AdminCleanupRequest
    \/ AdminReloadModel
    \/ LoadModel
    \/ ReloadModel
    \/ ModelFileChange
    \/ Tick

SpecAdmin == InitAdminSpec /\ [][NextAdmin]_vars

\* ===================================================================== claims

\* C1: the persisted status of a request only ever changes queued -> running
\* -> done or queued -> running -> failed (the record being created as
\* queued): nothing leaves done or failed, and nothing goes from queued
\* straight to done or failed.
StatusMoves ==
    {<<"none", "queued">>, <<"queued", "running">>,
     <<"running", "done">>, <<"running", "failed">>}

C1_StatusTransitions ==
    [][\A r \in Ids :
          statusRec'[r] # statusRec[r] => <<statusRec[r], statusRec'[r]>> \in StatusMoves]_vars

\* Both terminal statuses are reached, by jobs that returned.
C1_Witness ==
    \E r, q \in Ids :
       /\ statusRec[r] = "done" /\ pc[r] = "returned"
       /\ statusRec[q] = "failed" /\ pc[q] = "returned"

\* C2: a status query for an id that has no status record is answered 404
\* "Status not found".
C2_UnknownIdIsNotFound ==
    (resp.op = "get_status" /\ statusRec[resp.id] = "none") => resp.code = 404

\* C3: a job execution that has ended has not let an exception out to the
\* scheduler and has left the request done or failed.
C3_JobEndsTerminal ==
    \A r \in Ids :
       pc[r] \in {"returned", "crashed"} =>
          (pc[r] = "returned" /\ statusRec[r] \in {"done", "failed"})

\* C7: a status record exists only while the request's artifact directory (the
\* one the retention sweep deletes) exists.
C7_StatusSharesDirLifecycle ==
    \A r \in Ids : statusRec[r] # "none" => workDir[r].exists

\* C8: a rejected submission (404 unsupported extension, 413 too large) leaves
\* nothing behind: no directory, no status record, no scheduled task.
C8_RejectedLeavesNothing ==
    [][(resp' # resp /\ resp'.op = "analyze" /\ resp'.code # 202)
          => UNCHANGED <<workDir, statusRec, pc>>]_vars

\* A check that got as far as _required_valid_signature with signing on.
SignatureChecked ==
    /\ chk.op # "none"
    /\ download_signing_key # ""
    /\ chk.filename \in AllowedFilenames

ExpectedSig == sign(download_signing_key, check_message(chk.rid, chk.filename, chk.exp))

\* C4: with a signing key configured, a check with exp < now fails with
\* "URL has expired", whatever the signature is.
C4_ExpiredWhateverSignature ==
    (SignatureChecked /\ chk.exp < chk.now)
       => (chk.code = 403 /\ chk.detail = "URL has expired")

\* An expired URL that carries the right signature is refused as expired.
C4_Witness ==
    /\ SignatureChecked /\ chk.exp < chk.now
    /\ chk.sig = ExpectedSig
    /\ chk.detail = "URL has expired"

\* C5: with a signing key configured, a check with exp >= now and a signature
\* other than the HMAC of "{request_id}:{filename}:{exp}" fails with
\* "Invalid signature".
C5_MismatchIsInvalidSignature ==
    (SignatureChecked /\ chk.exp >= chk.now /\ chk.sig # ExpectedSig)
       => (chk.code = 403 /\ chk.detail = "Invalid signature")

\* C6: a URL issued at second t with TTL T, followed as issued, passes the
\* check at every second now <= t + T and fails with "URL has expired" at every
\* now > t + T; it is never refused as an invalid signature.
C6_IssuedUrlValidUntilExpiry ==
    (chk.op = "follow" /\ download_signing_key # "")
       => IF chk.now <= chk.issued_at + DOWNLOAD_URL_TTL_SECONDS
          THEN chk.code = 200
          ELSE chk.code = 403 /\ chk.detail = "URL has expired"

\* An issued URL followed one second after its expiry.
C6_Witness ==
    /\ chk.op = "follow"
    /\ chk.now = chk.issued_at + DOWNLOAD_URL_TTL_SECONDS + 1
    /\ chk.detail = "URL has expired"

C10_SecondSweepRemovesNothing ==
    sweepRun = 2 => resp.n = 0

\* The entries of base_dir that are directories older than the ttl, in the
\* state before a sweep.
AgedOut ==
    {r \in Ids : /\ workDir[r].exists
                 /\ workDir[r].is_dir
                 /\ clock - workDir[r].mtime > sweepTtl * TicksPerSecond}

\* C11 (as claimed): a sweep deletes exactly the subdirectories older than the
\* ttl and returns their number; everything else is left as it was.
C11_SweepDeletesExactlyAgedOut ==
    [][clock' = clock =>
          /\ resp'.n = Cardinality(AgedOut)
          /\ \A r \in Ids :
                workDir'[r] = IF r \in AgedOut THEN NoDir ELSE workDir[r]]_vars

\* C11 (amended): a sweep calls the recursive delete on exactly the
\* subdirectories older than the ttl and returns their number; each of them is
\* gone afterwards unless its deletion failed, in which case it is still there
\* with at most the files it had; a subdirectory of age <= ttl, a non-directory
\* entry and a missing base_dir (result 0) are left as they were.
C11_SweepTakesExactlyAgedOut ==
    [][clock' = clock =>
          /\ resp'.n = Cardinality(AgedOut)
          /\ nextId = 1 => resp'.n = 0
          /\ \A r \in Ids :
                IF r \in AgedOut
                THEN \/ workDir'[r] = NoDir
                     \/ /\ workDir'[r].exists /\ workDir'[r].is_dir
                        /\ workDir'[r].files \subseteq workDir[r].files
                ELSE workDir'[r] = workDir[r]]_vars

\* A sweep has removed one directory and left one whose age equals the ttl.
C11_Witness ==
    /\ resp.op = "sweep" /\ resp.n = 1
    /\ \E r \in Ids : workDir[r] = NoDir
    /\ \E r \in Ids : /\ workDir[r].exists /\ workDir[r].is_dir
                      /\ clock - workDir[r].mtime = sweepTtl * TicksPerSecond

\* C12: a download answers with the artifact only when the filename is on the
\* allow-list, the signed-URL check passes (signing off, or exp >= now and the
\* right signature) and the artifact exists; every other download answers
\* not-found (filename off the list, artifact absent) or forbidden (expired,
\* bad signature); and a download changes no status record and no artifact.
C12_DownloadServesOnlyWhenAllHold ==
    chk.op # "none" =>
       LET allowed == chk.filename \in AllowedFilenames
           passes == \/ download_signing_key = ""
                     \/ chk.exp >= chk.now /\ chk.sig = ExpectedSig
       IN  IF allowed /\ passes /\ chk.present
           THEN chk.http = 200 /\ chk.body = "FileResponse"
           ELSE IF ~allowed \/ (passes /\ ~chk.present)
           THEN chk.http = 404
           ELSE chk.http = 403

\* C13: the response to a download with an expired URL is the same, status
\* and detail, as the response to a download with an unexpired URL that
\* carries a bad signature (here: two such downloads, one after the other).
C13_AuthFailuresIndistinguishable ==
    [][(/\ download_signing_key # ""
        /\ chk.op # "none" /\ chk.filename \in AllowedFilenames
        /\ chk.exp < chk.now
        /\ chk'.op # "none" /\ chk'.filename \in AllowedFilenames
        /\ chk'.exp >= chk'.now
        /\ chk'.sig # sign(download_signing_key,
                           check_message(chk'.rid, chk'.filename, chk'.exp))
        /\ chk.http = 403 /\ chk'.http = 403)
       => chk'.body = chk.body]_vars

\* C14: with an admin token configured, an admin cleanup or reload request
\* whose X-Admin-Token header is missing or differs from the token is answered
\* 401 and removes no directory and leaves the model cache as it was; with a
\* matching token, or no token configured, the sweep or reload runs.
C14_AdminTokenGuards ==
    [][(adminReq' # adminReq \/ resp' # resp) =>
          IF admin_token # "" /\ adminReq'.header # admin_token
          THEN /\ resp'.code = 401 /\ resp'.op = adminReq'.op
               /\ UNCHANGED <<workDir, cache>>
          ELSE /\ resp'.code \in {200, 500} /\ resp'.op = adminReq'.op
               /\ adminReq'.op = "cleanup" =>
                     resp'.n = Cardinality({r \in Ids :
                                  /\ workDir[r].exists
                                  /\ clock - workDir[r].mtime
                                        > RESULT_TTL_SECONDS * TicksPerSecond})
               /\ adminReq'.op = "reload" =>
                     (mres'.op = "reload" /\ mres'.before = cache /\ ~mres'.hit)]_vars

\* A request with a wrong token was refused while an expired directory and a
\* cached bundle were there to lose.
C14_Witness ==
    /\ admin_token # "" /\ adminReq.header = "wrong"
    /\ resp.code = 401
    /\ cache # "None"
    /\ \E r \in Ids : /\ workDir[r].exists
                      /\ clock - workDir[r].mtime > RESULT_TTL_SECONDS * TicksPerSecond

\* C15: a reload that fails (file missing or malformed) leaves the cache
\* empty, whatever was cached before, and reports the failure to the caller
\* (the admin endpoint answers 500); the load that follows reads the file
\* again instead of returning the earlier bundle.
C15_FailedReloadEmptiesCache ==
    [][/\ (mres' # mres /\ mres'.op = "reload" /\ model_file \notin Bundles) =>
             /\ mres'.out = "raised"
             /\ cache' = "None"
             /\ resp' # resp => resp'.code = 500
       /\ (mres.op = "reload" /\ mres.out = "raised" /\ mres' # mres) =>
             /\ ~mres'.hit
             /\ mres'.out = IF model_file \in Bundles THEN model_file ELSE "raised"]_vars

\* A reload failed while a bundle was cached, and the cache is empty.
C15_Witness ==
    /\ mres.op = "reload" /\ mres.out = "raised"
    /\ mres.before \in Bundles
    /\ cache = "None"
    /\ resp.op = "reload" /\ resp.code = 500

\* C16: validate_file_type_strict returns only when the lower-cased extension
\* is in the allowed extensions and the lower-cased content type is in the
\* allowed MIME types; otherwise it raises the first error that applies, in
\* the order: extension missing, extension not allowed, MIME type missing,
\* MIME type not allowed.
C16_StrictValidationOrder ==
    (fnIn.fn = "validate" /\ fnOut.done) =>
       LET ext == safe_ext(fnIn.filename)
           mime == lower(IF fnIn.content_type = NoneValue THEN <<>> ELSE fnIn.content_type)
       IN  /\ fnOut.raised = "" =>
                 /\ ext \in fnIn.allowed_ext /\ mime \in fnIn.allowed_mime
                 /\ fnOut.ext = ext /\ fnOut.mime = mime
           /\ fnOut.raised =
                 CASE ext = <<>> -> "File extension is missing."
                   [] ext # <<>> /\ ext \notin fnIn.allowed_ext ->
                         "File extension is not allowed."
                   [] ext # <<>> /\ ext \in fnIn.allowed_ext /\ mime = <<>> ->
                         "MIME type is missing."
                   [] ext # <<>> /\ ext \in fnIn.allowed_ext /\ mime # <<>>
                         /\ mime \notin fnIn.allowed_mime -> "MIME type is not allowed."
                   [] OTHER -> ""

\* A file with an upper-case extension that is not allowed and no content
\* type: the extension error comes first.
C16_Witness ==
    /\ fnIn.fn = "validate" /\ fnOut.done
    /\ suffix(path_name(fnIn.filename, <<>>, <<>>)) = <<".", "P">>
    /\ fnIn.content_type = NoneValue
    /\ fnOut.raised = "File extension is not allowed."

\* The table of the call is too small for a model: no numeric column or
\* fewer than five rows.
TooSmall == fnIn.ncols = 0 \/ Len(fnIn.labels) < 5

\* The length the result must have: min(max(top_k, 1), row count).
WantedLen ==
    LET k == IF fnIn.top_k > 1 THEN fnIn.top_k ELSE 1 IN
    IF k < Len(fnIn.labels) THEN k ELSE Len(fnIn.labels)

\* indices and scores have the wanted length, and indices are labels of rows
\* of the table, none twice.
WellFormedResult ==
    /\ Len(fnOut.indices) = WantedLen
    /\ Len(fnOut.scores) = WantedLen
    /\ \A i \in 1..Len(fnOut.indices) :
          /\ \E r \in 1..Len(fnIn.labels) : fnIn.labels[r] = fnOut.indices[i]
          /\ \A j \in 1..Len(fnOut.indices) :
                i # j => fnOut.indices[i] # fnOut.indices[j]

C18_TopKByScore ==
    (fnIn.fn = "detect" /\ fnOut.done /\ ~fnOut.absent /\ fnOut.raised = "") =>
       LET n == Len(fnIn.labels)
           k == Len(fnOut.indices)
           row(i) == CHOOSE r \in 1..n : fnIn.labels[r] = fnOut.indices[i]
       IN  /\ \A i \in 1..k, j \in 1..k : i < j => fnOut.scores[i] >= fnOut.scores[j]
           /\ \A i \in 1..k : fnOut.scores[i] = -fnOut.normality[row(i)]
           /\ \A r \in 1..n :
                 (\A i \in 1..k : fnOut.indices[i] # fnIn.labels[r]) =>
                    \A i \in 1..k : -fnOut.normality[r] <= fnOut.scores[i]

\* Six rows, the last one alone with the highest score, top_k = 2: its label
\* comes first in indices.
C18_Witness ==
    /\ fnIn.fn = "detect" /\ fnOut.done /\ ~fnOut.absent /\ fnOut.raised = ""
    /\ fnIn.top_k = 2 /\ Len(fnIn.labels) = 6
    /\ fnOut.normality[6] = -MaxScore
    /\ \A r \in 1..5 : fnOut.normality[r] > -MaxScore
    /\ fnOut.indices[1] = fnIn.labels[6]

\* Row i of the table of the call has every cell missing.
AllEmpty(i) == \A c \in DOMAIN fnIn.table.rows[i] : fnIn.table.rows[i][c] = "NA"

\* Row i is not empty and equals an earlier row.
LaterCopy(i) ==
    /\ ~AllEmpty(i)
    /\ \E j \in 1..(i - 1) : fnIn.table.rows[j] = fnIn.table.rows[i]

\* C19: basic_clean removes exactly the entirely empty rows and the later
\* copies of duplicated rows, keeps the first occurrence of every distinct row
\* in the original order and all columns in order, and the row count that
\* summarize reports is the input row count minus the empty rows minus the
\* surplus copies.
C19_CleanDropsEmptyAndCopies ==
    (fnIn.fn = "clean" /\ fnOut.done) =>
       LET n == Len(fnIn.table.rows)
           k == Len(fnOut.index)
       IN  /\ \A i \in 1..n :
                 (\E a \in 1..k : fnOut.index[a] = i) <=> (~AllEmpty(i) /\ ~LaterCopy(i))
           /\ \A a \in 1..k, b \in 1..k : a < b => fnOut.index[a] < fnOut.index[b]
           /\ Len(fnOut.rows) = k
           /\ \A a \in 1..k : fnOut.rows[a] = fnIn.table.rows[fnOut.index[a]]
           /\ Len(fnOut.columns) = Len(fnIn.table.columns)
           /\ fnOut.summary_cols = Len(fnIn.table.columns)
           /\ fnOut.summary_rows =
                 n - Cardinality({i \in 1..n : AllEmpty(i)})
                   - Cardinality({i \in 1..n : LaterCopy(i)})

\* Two identical rows with a missing cell each and an empty row between them
\* give one row.
C19_Witness ==
    /\ fnIn.fn = "clean" /\ fnOut.done
    /\ Len(fnIn.table.rows) = 3 /\ Len(fnIn.table.columns) = 2
    /\ fnIn.table.rows[1] = <<"x", "NA">>
    /\ fnIn.table.rows[2] = <<"NA", "NA">>
    /\ fnIn.table.rows[3] = <<"x", "NA">>
    /\ fnOut.summary_rows = 1 /\ fnOut.index = <<1>>

\* C20: a status read that runs while the same request's status is written
\* gives the complete record written before or the complete new record, never
\* an empty or partial document.
C20_ReadsSeeCompleteRecords ==
    rres.done =>
       /\ rres.value \in {"queued", "running", "done", "failed"}
       /\ rres.value \in {rres.prev, rres.new}

\* C21: under any interleaving of load and reload calls, every call that
\* returns a bundle returns a complete one (the model with the feature
\* columns it was stored with), and once every call has finished the cache
\* holds what the last assignment to it stored.
C21_NoTornBundleLastWriterWins ==
    /\ \A t \in Threads :
          (tres[t].kind = "returned" /\ tres[t].value.model # "None") =>
             tres[t].value.model = tres[t].value.features
    /\ slot.model = slot.features
    /\ (\A t \in Threads : tpc[t] = "done") => slot = lastStore

\* Two reloads raced while the file changed: each returned its own complete
\* bundle, and the cache holds the one stored last.
C21_Witness ==
    /\ \A t \in Threads : tpc[t] = "done" /\ top[t] = "reload" /\ tres[t].kind = "returned"
    /\ tres[1].value # tres[2].value
    /\ tres[1].value.model # "None" /\ tres[2].value.model # "None"
    /\ slot = lastStore /\ slot = tres[1].value

\* C22: a step of the job of request r, whether the job succeeds or fails,
\* changes no status record and no directory but r's own, however the jobs
\* interleave.
C22_JobTouchesOnlyItsOwn ==
    [][\A r \in Ids :
          (pc'[r] # pc[r] /\ pc[r] # "idle") =>
             \A q \in Ids \ {r} :
                statusRec'[q] = statusRec[q] /\ workDir'[q] = workDir[q]]_vars

\* One job failed and returned while another, still running, had written its
\* summary.
C22_Witness ==
    \E r, q \in Ids :
       /\ r # q
       /\ pc[r] = "returned" /\ statusRec[r] = "failed"
       /\ pc[q] = "done" /\ statusRec[q] = "running"
       /\ "summary.json" \in workDir[q].files

\* C23: the sweep always returns (it never ends by an exception), and when it
\* has returned, every listed subdirectory that is still there and old enough
\* is one it called rmtree on: a deletion that failed, or a subdirectory gone
\* between listing and stat, did not keep it from the others. Every rmtree call
\* is counted.
C23_SweepIsBestEffort ==
    lpc = "returned" =>
       /\ ~lraised
       /\ llist = <<>>
       /\ \A r \in llisted :
             expired(workDir[r], lnow, sweepTtl) => \E i \in 1..Len(ltried) : ltried[i] = r
       /\ lremoved = Len(ltried)

\* The first deletion failed (the subdirectory is still there, as old as it
\* was) and the sweep went on to delete a second subdirectory; or the first
\* subdirectory was gone at stat and the sweep went on to delete the second.
C23_Witness ==
    /\ lpc = "returned"
    /\ \/ /\ Len(ltried) = 2
          /\ expired(workDir[ltried[1]], lnow, sweepTtl)
          /\ ~workDir[ltried[2]].exists
       \/ /\ Len(ltried) = 1
          /\ lcaught # {}
          /\ ltried[1] \notin lcaught

\* C24: a load that found the cache slot occupied returns the cached bundle:
\* whatever a call returns is a bundle, never the empty slot.
C24_LoadReturnsCachedBundle ==
    \A t \in Threads : tres[t].kind = "returned" => tres[t].value # NoBundle

\* C25: with no signing key configured, the signature check lets every request
\* for an allow-listed file through, whatever its exp and sig, and every URL
\* issued is the static path /results/{request_id}/{filename} without query
\* parameters.
C25_UnsignedModeChecksNothing ==
    download_signing_key = "" =>
       /\ (chk.op # "none" /\ chk.filename \in AllowedFilenames) =>
             chk.code = 200 /\ chk.detail = "ok"
       /\ \A i \in issued :
             /\ i.url.route = "/results"
             /\ i.url.query = {}
             /\ i.url.filename \in AllowedFilenames

\* Without a key, a request whose exp is in the past and whose sig is junk
\* passed the check, and a URL has been issued.
C25_Witness ==
    /\ download_signing_key = ""
    /\ chk.op = "typed"
    /\ chk.filename \in AllowedFilenames
    /\ chk.exp < chk.now
    /\ chk.sig \in {JunkSig, NonAsciiSig}
    /\ chk.code = 200
    /\ issued # {}

\* C26: rows with equal anomaly score come back in the order they have in the
\* table, and when the cut to top_k falls among rows of equal score, the rows
\* kept are the ones that come first in the table.
C26_TiesKeepTableOrder ==
    (fnIn.fn = "detect" /\ fnOut.done /\ ~fnOut.absent /\ fnOut.raised = "") =>
       LET n == Len(fnIn.labels)
           k == Len(fnOut.indices)
           row(i) == CHOOSE r \in 1..n : fnIn.labels[r] = fnOut.indices[i]
       IN  /\ \A i \in 1..k, j \in 1..k :
                 (i < j /\ fnOut.scores[i] = fnOut.scores[j]) => row(i) < row(j)
           /\ \A r \in 1..n :
                 (\A i \in 1..k : fnOut.indices[i] # fnIn.labels[r]) =>
                    \A i \in 1..k : -fnOut.normality[r] = fnOut.scores[i] => row(i) < r

\* The queued record is on disk before the job is scheduled, the job writes
\* only once the response has been sent, and no complete record is replaced by
\* an earlier one.
C27_QueuedBeforeJob ==
    \A r \in Ids :
       /\ apc[r] \in {"scheduled", "returned"} => sfile[r] # "none" /\ wnew[r] # "none"
       /\ wnew[r] \in {"running", "done", "failed"} => apc[r] = "returned"
       /\ (wpc[r] = "idle" /\ wnew[r] # "none") => sfile[r] = wnew[r]

\* C27: the queued record is written before the job is scheduled and is never
\* written over a later record, and a status query for an id that submit has
\* returned gives a record (queued, running, done or failed): it neither finds
\* the status file missing nor fails otherwise.
C27_AcceptedStatusIsThere ==
    /\ C27_QueuedBeforeJob
    /\ rres.done =>
          /\ apc[rres.id] = "returned"
          /\ rres.value # "TypeError"
          /\ rres.value \in {"queued", "running", "done", "failed"}

====
